---- MODULE Spec2Model ----
(***************************************************************************)
(* A model of news_fetcher.py: the three source adapters of NewsFetcher,   *)
(* the merge (fetch_all_news), the orchestrator                            *)
(* (fetch_major_news_2018_to_today), the CSV export and the Flask          *)
(* /download handler of create_web_server.                                 *)
(*                                                                         *)
(* Python strings are sequences of one-character strings, so that          *)
(* str.lower(), the `in` substring test and the string comparison used by  *)
(* list.sort are computed character by character.  Python values are       *)
(* tagged records: PyStr(s), PyInt(n), None; Missing marks a key that a    *)
(* JSON object does not have.                                              *)
(***************************************************************************)
EXTENDS Integers, Sequences, FiniteSets, TLC

VARIABLES
    api_key,             \* NewsFetcher.api_key, set by __init__
    entry,               \* the method the client called on the NewsFetcher
    pc,                  \* the position of the call in progress
    args,                \* the arguments of a direct adapter call
    resp,                \* the HTTP response the last requests.get received
    http_gets,           \* the number of requests.get calls issued so far
    failed_gets,         \* how many of them failed at the transport level
    ret,                 \* what the direct adapter call returned
    exc,                 \* the exception that propagated out of the call
    q,                   \* index into major_news_queries (the for loop, line 226)
    feed,                \* index into the subreddits fetch_all_news reads
    all_articles,        \* fetch_all_news: the concatenation, lines 171-184
    valid_articles,      \* fetch_all_news: the value returned, lines 187-192
    all_major_articles,  \* fetch_major_news_2018_to_today, lines 224-229
    unique_articles,     \* fetch_major_news_2018_to_today, lines 232-239
    result,              \* what fetch_major_news_2018_to_today returned
    csv_file,            \* major_news_2018_to_today.csv on disk
    rpc,                 \* per request: the position of download_file
    articles,            \* per request: the local `articles` of download_file
    response,            \* per request: what the client received
    generations          \* how many times a request entered the generation

vars == <<api_key, entry, pc, args, resp, http_gets, failed_gets, ret, exc, q, feed, all_articles,
          valid_articles, all_major_articles, unique_articles, result,
          csv_file, rpc, articles, response, generations>>

fetcherVars == <<api_key, entry, pc, args, resp, http_gets, failed_gets,
                 ret, exc, q, feed, all_articles,
                 valid_articles, all_major_articles, unique_articles, result>>

serverVars == <<csv_file, rpc, articles, response, generations>>

----------------------------------------------------------------------------
(* Characters and strings *)

\* The printable ASCII characters by code point: 32 to 95, then 97 to 126 (the
\* grave accent, 96, occurs in no string of the program or of the model).
AsciiLow == <<" ","!","\"","#","$","%","&","'","(",")","*","+",",","-",".","/","0","1","2","3","4",
    "5","6","7","8","9",":",";","<","=",">","?","@","A","B","C","D","E","F","G","H","I","J","K","L",
    "M","N","O","P","Q","R","S","T","U","V","W","X","Y","Z","[","\\","]","^","_">>

AsciiHigh == <<"a","b","c","d","e","f","g","h","i","j","k","l","m","n","o","p","q","r","s","t","u",
    "v","w","x","y","z","{","|","}","~">>

\* ord(c): the code point of a character.
ord == [c \in {AsciiLow[i] : i \in 1..Len(AsciiLow)} \cup {AsciiHigh[i] : i \in 1..Len(AsciiHigh)} |->
          IF \E i \in 1..Len(AsciiLow) : AsciiLow[i] = c
          THEN 31 + (CHOOSE i \in 1..Len(AsciiLow) : AsciiLow[i] = c)
          ELSE 96 + (CHOOSE i \in 1..Len(AsciiHigh) : AsciiHigh[i] = c)]

\* chr(n) for a printable code point.
chr(n) == IF n <= 95 THEN AsciiLow[n - 31] ELSE AsciiHigh[n - 96]

\* str.lower() of one character: "A".."Z" (65..90) move up by 32.
lower_char(c) == IF ord[c] >= 65 /\ ord[c] <= 90 THEN chr(ord[c] + 32) ELSE c

\* A lower() that leaves upper case letters as they are.
lower_keeps_case(s) == s

\* str.lower()
lower(s) == [i \in 1..Len(s) |-> lower_char(s[i])]

\* `k in s` on strings: k is a substring of s.
contains(s, k) == \E i \in 1..(Len(s) - Len(k) + 1) : SubSeq(s, i, i + Len(k) - 1) = k

\* a < b on strings: lexicographic by code point, a proper prefix is smaller.
str_lt(a, b) ==
    LET n == IF Len(a) < Len(b) THEN Len(a) ELSE Len(b)
        diff == {i \in 1..n : a[i] # b[i]}
    IN  IF diff = {} THEN Len(a) < Len(b)
        ELSE LET i == CHOOSE j \in diff : \A k \in diff : j <= k
             IN  ord[a[i]] < ord[b[i]]

----------------------------------------------------------------------------
(* Python values *)

PyStr(s) == [t |-> "str", s |-> s, n |-> 0]
PyInt(n) == [t |-> "int", s |-> <<>>, n |-> n]
None == [t |-> "none", s |-> <<>>, n |-> 0]
\* The key is absent from the JSON object.
Missing == [t |-> "missing", s |-> <<>>, n |-> 0]

\* dict.get(key, default): the default is used only when the key is absent; a key
\* that is present with the value null yields None.
get(v, default) == IF v.t = "missing" THEN default ELSE v

\* `is not None` in place of the truth value: the empty string counts as a key.
truthy_unless_none(v) == v.t = "str"

\* Truth value of an optional string: None and "" are false.
truthy(v) == v.t = "str" /\ v.s # <<>>

\* The outcome of a call: it returns a value or an exception propagates.
Return(v) == [kind |-> "return", val |-> v, exc |-> "none"]
Raise(e) == [kind |-> "raise", val |-> <<>>, exc |-> e]

----------------------------------------------------------------------------
(* The HTTP exchange of an adapter: requests.get, raise_for_status, json *)

\* 'ConnectionError'
S_CONN == <<"C","o","n","n","e","c","t","i","o","n","E","r","r","o","r">>
\* 'HTTPError'
S_HTTP == <<"H","T","T","P","E","r","r","o","r">>
\* 'JSONDecodeError'
S_JSON == <<"J","S","O","N","D","e","c","o","d","e","E","r","r","o","r">>

\* What the try block's first three statements raise for a response: requests.get
\* raises ConnectionError when the connection fails, raise_for_status raises
\* HTTPError on a non-2xx status, response.json() raises
\* requests.exceptions.JSONDecodeError on a body that is not JSON.
transport_exception(r) ==
    CASE r.status = "connection_error" -> "ConnectionError"
      [] r.status = "http_error" -> "HTTPError"
      [] r.status = "invalid_json" -> "JSONDecodeError"
      [] OTHER -> "none"

\* A RequestException that does not cover the JSON decoding error of the body.
is_request_exception_without_json(e) == e \in {"ConnectionError", "HTTPError"}

\* isinstance(e, requests.exceptions.RequestException): the three transport
\* exceptions are subclasses (JSONDecodeError through InvalidJSONError);
\* AttributeError and TypeError are not.
is_request_exception(e) == e \in {"ConnectionError", "HTTPError", "JSONDecodeError"}

\* str(e), abstracted to the text that tells the failures apart.
str_of_exception(e) ==
    CASE e = "ConnectionError" -> S_CONN
      [] e = "HTTPError" -> S_HTTP
      [] OTHER -> S_JSON

\* A placeholder where an outcome carries no article.
NoArticle == [error |-> None]

Article(a) == [kind |-> "article", art |-> a, exc |-> "none"]
Skip == [kind |-> "skip", art |-> NoArticle, exc |-> "none"]
Fail(e) == [kind |-> "raise", art |-> NoArticle, exc |-> e]

\* The for loop of an adapter over the per-item outcomes: the first item that
\* raises ends the call, otherwise the appended articles are returned in order.
collect(outs) ==
    LET raises == {i \in DOMAIN outs : outs[i].kind = "raise"}
        kept == SelectSeq(outs, LAMBDA o : o.kind = "article")
    IN  IF raises # {}
        THEN Raise(outs[CHOOSE i \in raises : \A j \in raises : i <= j].exc)
        ELSE Return([i \in 1..Len(kept) |-> kept[i].art])

\* except requests.exceptions.RequestException as e: return [{"error": ...}];
\* any other exception propagates to the caller.
handle(e, prefix) ==
    IF is_request_exception(e)
    THEN Return(<<[error |-> PyStr(prefix \o str_of_exception(e))]>>)
    ELSE Raise(e)

----------------------------------------------------------------------------
(* fetch_news_api *)

\* 'API key required for NewsAPI. Get one from newsapi.org'
MSG_NO_KEY == <<"A","P","I"," ","k","e","y"," ","r","e","q","u","i","r","e","d"," ","f","o","r"," ",
    "N","e","w","s","A","P","I","."," ","G","e","t"," ","o","n","e"," ","f","r","o","m"," ","n","e",
    "w","s","a","p","i",".","o","r","g">>
\* 'Failed to fetch from NewsAPI: '
MSG_NEWSAPI == <<"F","a","i","l","e","d"," ","t","o"," ","f","e","t","c","h"," ","f","r","o","m",
    " ","N","e","w","s","A","P","I",":"," ">>
\* 'NewsAPI'
S_NEWSAPI == <<"N","e","w","s","A","P","I">>

\* One turn of the loop of lines 56-64 on a raw item
\* [title, description, url, publishedAt, source, name], where source says
\* whether the 'source' key holds an object, holds null or is missing, and name
\* is the 'name' of that object.
news_api_article(a) ==
    IF a.source = "null"
    THEN Fail("AttributeError")          \* None.get('name', '')
    ELSE Article([source |-> PyStr(S_NEWSAPI),
                  title |-> get(a.title, PyStr(<<>>)),
                  description |-> get(a.description, PyStr(<<>>)),
                  url |-> get(a.url, PyStr(<<>>)),
                  published_at |-> get(a.publishedAt, PyStr(<<>>)),
                  source_name |-> IF a.source = "missing" THEN PyStr(<<>>)
                                  ELSE get(a.name, PyStr(<<>>))])

\* Whether fetch_news_api issues its HTTP GET: not when the key is missing.
news_api_requests(key) == IF truthy(key) THEN 1 ELSE 0

\* fetch_news_api, lines 32-68.  r.top says whether the body's 'articles' key
\* holds a list, holds null or is missing.
fetch_news_api(key, r) ==
    IF ~truthy(key)
    THEN Return(<<[error |-> PyStr(MSG_NO_KEY)]>>)
    ELSE IF transport_exception(r) # "none"
    THEN handle(transport_exception(r), MSG_NEWSAPI)
    ELSE IF r.top = "null"
    THEN handle("TypeError", MSG_NEWSAPI)      \* for article in None
    ELSE IF r.top = "missing"
    THEN Return(<<>>)
    ELSE LET out == collect([i \in 1..Len(r.items) |-> news_api_article(r.items[i])])
         IN  IF out.kind = "raise" THEN handle(out.exc, MSG_NEWSAPI) ELSE out

----------------------------------------------------------------------------
(* fetch_guardian *)

\* 'Failed to fetch from The Guardian: '
MSG_GUARDIAN == <<"F","a","i","l","e","d"," ","t","o"," ","f","e","t","c","h"," ","f","r","o","m",
    " ","T","h","e"," ","G","u","a","r","d","i","a","n",":"," ">>
\* 'The Guardian'
S_GUARDIAN == <<"T","h","e"," ","G","u","a","r","d","i","a","n">>

\* One turn of the loop of lines 103-112 on a raw item
\* [fields, headline, trailText, webUrl, webPublicationDate].
guardian_article(a) ==
    IF a.fields = "null"
    THEN Fail("AttributeError")          \* fields = None; None.get('headline', '')
    ELSE LET f(v) == IF a.fields = "missing" THEN PyStr(<<>>) ELSE get(v, PyStr(<<>>))
         IN  Article([source |-> PyStr(S_GUARDIAN),
                      title |-> f(a.headline),
                      description |-> f(a.trailText),
                      url |-> f(a.webUrl),
                      published_at |-> get(a.webPublicationDate, PyStr(<<>>)),
                      source_name |-> PyStr(S_GUARDIAN)])

\* fetch_guardian, lines 82-116.  r.top says whether the body's 'response' key
\* holds an object, holds null or is missing.
fetch_guardian(r) ==
    IF transport_exception(r) # "none"
    THEN handle(transport_exception(r), MSG_GUARDIAN)
    ELSE IF r.top = "null"
    THEN handle("AttributeError", MSG_GUARDIAN)   \* None.get('results', [])
    ELSE IF r.top = "missing"
    THEN Return(<<>>)
    ELSE LET out == collect([i \in 1..Len(r.items) |-> guardian_article(r.items[i])])
         IN  IF out.kind = "raise" THEN handle(out.exc, MSG_GUARDIAN) ELSE out

----------------------------------------------------------------------------
(* fetch_reddit_news *)

\* 'Failed to fetch from Reddit: '
MSG_REDDIT == <<"F","a","i","l","e","d"," ","t","o"," ","f","e","t","c","h"," ","f","r","o","m"," ",
    "R","e","d","d","i","t",":"," ">>
\* 'Reddit'
S_REDDIT == <<"R","e","d","d","i","t">>
\* '1970-01-01T'
EPOCH_DATE == <<"1","9","7","0","-","0","1","-","0","1","T">>

\* The allowlist of line 142.
investment_keywords == <<
    <<"i","n","v","e","s","t","m","e","n","t">>,
    <<"f","u","n","d","i","n","g">>,
    <<"v","e","n","t","u","r","e">>,
    <<"c","a","p","i","t","a","l">>,
    <<"s","t","a","r","t","u","p">>,
    <<"i","p","o">>,
    <<"a","c","q","u","i","s","i","t","i","o","n">>,
    <<"m","e","r","g","e","r">>,
    <<"f","u","n","d">>,
    <<"r","a","i","s","e">>,
    <<"b","i","t","c","o","i","n">>,
    <<"c","r","y","p","t","o">>,
    <<"c","r","y","p","t","o","c","u","r","r","e","n","c","y">>,
    <<"b","t","c">>,
    <<"b","l","o","c","k","c","h","a","i","n">>,
    <<"s","t","o","c","k">>,
    <<"m","a","r","k","e","t">>,
    <<"e","c","o","n","o","m","y">>,
    <<"f","i","n","a","n","c","i","a","l">>,
    <<"f","i","n","a","n","c","e">> >>

\* any(keyword in title for keyword in investment_keywords), line 144.
has_investment_keyword(title) ==
    \E k \in 1..Len(investment_keywords) : contains(title, investment_keywords[k])

two_digits(k) == <<chr(48 + (k \div 10)), chr(48 + (k % 10))>>

\* datetime.fromtimestamp(ts).isoformat() for a whole number of seconds within
\* the first day of the epoch, the process running in UTC.
isoformat(ts) ==
    EPOCH_DATE \o two_digits(ts \div 3600) \o <<":">> \o two_digits((ts % 3600) \div 60)
               \o <<":">> \o two_digits(ts % 60)

\* One turn of the loop of lines 138-153 on a raw post
\* [data, title, selftext, url, created_utc, score], where data says whether the
\* post's 'data' key holds an object, holds null or is missing.
reddit_article(p, subreddit) ==
    IF p.data = "null"
    THEN Fail("AttributeError")              \* post_data = None; None.get('title', '')
    ELSE LET f(v, d) == IF p.data = "missing" THEN d ELSE get(v, d)
             title == f(p.title, PyStr(<<>>))
             created == f(p.created_utc, PyInt(0))
         IN  IF title.t # "str"
             THEN Fail("AttributeError")     \* None.lower()
             ELSE IF ~has_investment_keyword(lower(title.s))
             THEN Skip
             ELSE IF created.t # "int"
             THEN Fail("TypeError")          \* datetime.fromtimestamp(None)
             ELSE Article([source |-> PyStr(S_REDDIT),
                           title |-> title,
                           description |-> f(p.selftext, PyStr(<<>>)),
                           url |-> f(p.url, PyStr(<<>>)),
                           published_at |-> PyStr(isoformat(created.n)),
                           source_name |-> PyStr(<<"r", "/">> \o subreddit),
                           score |-> f(p.score, PyInt(0))])

\* fetch_reddit_news, lines 129-157.  r.top says whether the body's 'data' key
\* holds an object, holds null or is missing.
fetch_reddit_news(subreddit, r) ==
    IF transport_exception(r) # "none"
    THEN handle(transport_exception(r), MSG_REDDIT)
    ELSE IF r.top = "null"
    THEN handle("AttributeError", MSG_REDDIT)     \* None.get('children', [])
    ELSE IF r.top = "missing"
    THEN Return(<<>>)
    ELSE LET out == collect([i \in 1..Len(r.items) |-> reddit_article(r.items[i], subreddit)])
         IN  IF out.kind = "raise" THEN handle(out.exc, MSG_REDDIT) ELSE out

----------------------------------------------------------------------------
(* fetch_all_news and fetch_major_news_2018_to_today: the pure steps *)

\* How many of the fifteen major_news_queries (lines 206-222) the loop of the
\* model runs through.
NumQueries == 2

\* How many of the six subreddits of lines 175-180 fetch_all_news of the model
\* reads, in the order of the code.
NumFeeds == 2

\* The cap of line 243: unique_articles[:50].
MaxArticles == 50

\* The subreddits of lines 175-180, in call order.
subreddits == <<
    <<"i","n","v","e","s","t","i","n","g">>,
    <<"s","t","o","c","k","s">>,
    <<"B","i","t","c","o","i","n">>,
    <<"C","r","y","p","t","o","C","u","r","r","e","n","c","y">>,
    <<"w","o","r","l","d","n","e","w","s">>,
    <<"n","e","w","s">> >>

\* [article for article in all_articles if 'error' not in article], line 187.
without_errors(s) == SelectSeq(s, LAMBDA a : "error" \notin DOMAIN a)

\* lambda x: x.get('published_at', ''), lines 190 and 242.
sort_key(a) == IF "published_at" \in DOMAIN a THEN a.published_at ELSE PyStr(<<>>)

\* The elements of s at the indices in `keep`, in the order of s.
subsequence(s, keep) ==
    [p \in 1..Cardinality(keep) |->
        s[CHOOSE i \in keep : Cardinality({j \in keep : j <= i}) = p]]

\* The position in an ascending stable sort that is reversed afterwards: equal
\* keys come out in reverse order.
position_desc_reversed_ties(s, i) ==
    1 + Cardinality({j \in 1..Len(s) : str_lt(sort_key(s[i]).s, sort_key(s[j]).s)})
      + Cardinality({j \in (i + 1)..Len(s) : sort_key(s[j]).s = sort_key(s[i]).s})

\* Where list.sort(key=..., reverse=True) puts s[i] when every key is a string:
\* behind the elements with a greater key and behind the earlier elements with
\* an equal key (the sort is stable, also when reversed).
position_desc(s, i) ==
    1 + Cardinality({j \in 1..Len(s) : str_lt(sort_key(s[i]).s, sort_key(s[j]).s)})
      + Cardinality({j \in 1..(i - 1) : sort_key(s[j]).s = sort_key(s[i]).s})

\* The list that list.sort(key=..., reverse=True) leaves.
sorted_desc(s) ==
    LET position == [i \in 1..Len(s) |-> position_desc(s, i)]
    IN  [p \in 1..Len(s) |-> s[CHOOSE i \in 1..Len(s) : position[i] = p]]

\* list.sort(key=lambda x: x.get('published_at', ''), reverse=True), lines 190
\* and 242.  With two or more elements every key is compared at least once, and
\* comparing None with a string (or with None) raises TypeError.
sort_by_published_at(s) ==
    IF Len(s) >= 2 /\ \E i \in 1..Len(s) : sort_key(s[i]).t # "str"
    THEN Raise("TypeError")
    ELSE Return(sorted_desc(s))

\* Lines 187-192 of fetch_all_news.
filter_and_sort(s) == sort_by_published_at(without_errors(s))

\* article.get('title', ''), line 236, before .lower().
title_of(article) == IF "title" \in DOMAIN article THEN article.title ELSE PyStr(<<>>)

\* seen_titles when the loop of lines 235-239 reaches s[i]: the lowercase titles
\* of the articles before it, without the empty title, which is never added.
seen_titles(s, i) == {lower(title_of(s[j]).s) : j \in 1..(i - 1)} \ {<<>>}

\* The test of line 237 on the titles as they are, without .lower().
is_appended_case_sensitive(s, i) ==
    /\ title_of(s[i]).s # <<>>
    /\ \A j \in 1..(i - 1) : title_of(s[j]).s # title_of(s[i]).s

\* The test of line 237 without `title and`: the empty title is kept once.
is_appended_also_empty(s, i) == lower(title_of(s[i]).s) \notin {lower(title_of(s[j]).s) : j \in 1..(i - 1)}

\* The test of line 237 for s[i]: `title and title not in seen_titles`.
is_appended(s, i) ==
    LET title == lower(title_of(s[i]).s)
    IN  title # <<>> /\ title \notin seen_titles(s, i)

\* Lines 232-239.  The loop visits every article, and .lower() of a title that
\* is None raises AttributeError.
remove_duplicates(s) ==
    IF \E i \in 1..Len(s) : title_of(s[i]).t # "str"
    THEN Raise("AttributeError")
    ELSE Return(subsequence(s, {i \in 1..Len(s) : is_appended(s, i)}))

\* unique_articles[:50], line 243.
truncate(s) == SubSeq(s, 1, IF Len(s) < MaxArticles THEN Len(s) ELSE MaxArticles)

\* Lines 242-243 in the wrong order: the slice taken before the sort.
truncate_then_sort(s) == sort_by_published_at(truncate(s))

\* Lines 242-243.
sort_and_truncate(s) ==
    LET out == sort_by_published_at(s)
    IN  IF out.kind = "raise" THEN out ELSE Return(truncate(out.val))

----------------------------------------------------------------------------
(* The inputs of the model: credentials, arguments and HTTP responses *)

\* The longest list of items in the body of a response to a direct adapter call.
MaxItems == 2

\* The sequences over P of length at most n.
seqs_up_to(P, n) == UNION {[1..k -> P] : k \in 0..n}

\* 'Startup raises $10M'
S_STARTUP == <<"S","t","a","r","t","u","p"," ","r","a","i","s","e","s"," ","$","1","0","M">>
\* 'Cat video'
S_CAT == <<"C","a","t"," ","v","i","d","e","o">>
\* 'Big IPO'
S_IPO == <<"B","i","g"," ","I","P","O">>
\* 'Stockholm'
S_STOCKHOLM == <<"S","t","o","c","k","h","o","l","m">>
\* 'Markets up'
S_MARKETS == <<"M","a","r","k","e","t","s"," ","u","p">>
\* 'MARKETS UP'
S_MARKETS_UC == <<"M","A","R","K","E","T","S"," ","U","P">>
\* 'Rates cut'
S_RATES == <<"R","a","t","e","s"," ","c","u","t">>
\* '2024-01-01T00:00:00'
D_2024 == <<"2","0","2","4","-","0","1","-","0","1","T","0","0",":","0","0",":","0","0">>
\* '2023-05-05T00:00:00'
D_2023 == <<"2","0","2","3","-","0","5","-","0","5","T","0","0",":","0","0",":","0","0">>
\* 'Reuters'
S_REUTERS == <<"R","e","u","t","e","r","s">>
\* 'd1'
S_DESC == <<"d","1">>
\* 'http://a'
S_URL == <<"h","t","t","p",":","/","/","a">>

\* NewsFetcher(api_key): no key, the empty key, a key.
ApiKeys == {None, PyStr(<<>>), PyStr(<<"k","e","y">>)}

Queries == {<<"i","n","v","e","s","t","m","e","n","t">>, <<"p","o","l","i","t","i","c","s">>}
Languages == {<<"e","n">>, <<"d","e">>}
Dates == {None, PyStr(<<"2","0","1","8","-","0","1","-","0","1">>)}

NoArgs == [query |-> <<>>, language |-> <<>>, from_date |-> None, to_date |-> None,
           subreddit |-> <<>>]

\* No response: no request was made.
NoResponse == [status |-> "none", top |-> "obj", items |-> <<>>]

Failed(status) == [status |-> status, top |-> "obj", items |-> <<>>]
Ok(items) == [status |-> "ok", top |-> "obj", items |-> items]

\* A GET that fails at the transport level: the connection, the status, the body.
TransportFailures == {Failed("connection_error"), Failed("http_error"), Failed("invalid_json")}

\* Raw NewsAPI items.
NA_FULL == [title |-> PyStr(S_MARKETS), description |-> PyStr(S_DESC), url |-> PyStr(S_URL),
            publishedAt |-> PyStr(D_2024), source |-> "obj", name |-> PyStr(S_REUTERS)]
NA_BARE == [title |-> Missing, description |-> Missing, url |-> Missing,
            publishedAt |-> Missing, source |-> "missing", name |-> Missing]
NA_NO_NAME == [NA_FULL EXCEPT !.title = PyStr(S_RATES), !.publishedAt = PyStr(D_2023),
                              !.name = Missing]
NA_NULL_SOURCE == [NA_FULL EXCEPT !.source = "null", !.name = Missing]
NA_NULL_TITLE == [NA_FULL EXCEPT !.title = None]
NA_NULL_DATE == [NA_FULL EXCEPT !.publishedAt = None]
NA_NULL_NAME == [NA_FULL EXCEPT !.name = None, !.description = None]

NewsApiItems == {NA_FULL, NA_BARE, NA_NO_NAME, NA_NULL_SOURCE, NA_NULL_TITLE, NA_NULL_DATE,
                 NA_NULL_NAME}

\* Raw Guardian items.
G_FULL == [fields |-> "obj", headline |-> PyStr(S_MARKETS_UC), trailText |-> PyStr(S_DESC),
           webUrl |-> PyStr(S_URL), webPublicationDate |-> PyStr(D_2024)]
G_OLD == [G_FULL EXCEPT !.headline = PyStr(S_RATES), !.webPublicationDate = PyStr(D_2023)]
G_BARE == [fields |-> "missing", headline |-> Missing, trailText |-> Missing,
           webUrl |-> Missing, webPublicationDate |-> Missing]
G_NULL_FIELDS == [G_FULL EXCEPT !.fields = "null"]
G_NULL_HEADLINE == [G_FULL EXCEPT !.headline = None]
G_NULL_DATE == [G_OLD EXCEPT !.webPublicationDate = None]

GuardianItems == {G_FULL, G_OLD, G_BARE, G_NULL_FIELDS, G_NULL_HEADLINE, G_NULL_DATE}

\* Raw Reddit posts.
RP_STARTUP == [data |-> "obj", title |-> PyStr(S_STARTUP), selftext |-> PyStr(S_DESC),
               url |-> PyStr(S_URL), created_utc |-> PyInt(0), score |-> PyInt(5)]
RP_CAT == [RP_STARTUP EXCEPT !.title = PyStr(S_CAT)]
RP_IPO == [RP_STARTUP EXCEPT !.title = PyStr(S_IPO), !.created_utc = PyInt(3661),
                             !.score = Missing, !.selftext = Missing]
RP_STOCKHOLM == [RP_STARTUP EXCEPT !.title = PyStr(S_STOCKHOLM), !.created_utc = Missing,
                                   !.url = None]
RP_NO_DATA == [data |-> "missing", title |-> Missing, selftext |-> Missing, url |-> Missing,
               created_utc |-> Missing, score |-> Missing]
RP_NULL_DATA == [RP_NO_DATA EXCEPT !.data = "null"]
RP_NULL_TITLE == [RP_STARTUP EXCEPT !.title = None]
RP_NULL_CREATED == [RP_STARTUP EXCEPT !.title = PyStr(S_MARKETS), !.created_utc = None]
RP_CAT_NULL_CREATED == [RP_CAT EXCEPT !.created_utc = None]

RedditPosts == {RP_STARTUP, RP_CAT, RP_IPO, RP_STOCKHOLM, RP_NO_DATA, RP_NULL_DATA,
                RP_NULL_TITLE, RP_NULL_CREATED, RP_CAT_NULL_CREATED}

\* The bodies of a 200 response with a JSON body: the list of items, or the key
\* that holds it missing or null.
bodies(Items, n) ==
    {Ok(items) : items \in seqs_up_to(Items, n)}
        \cup {[status |-> "ok", top |-> t, items |-> <<>>] : t \in {"missing", "null"}}

\* What a direct call of an adapter may receive.
NewsApiResponses == TransportFailures \cup bodies(NewsApiItems, MaxItems)
GuardianResponses == TransportFailures \cup bodies(GuardianItems, MaxItems)
RedditResponses == TransportFailures \cup bodies(RedditPosts, MaxItems)

\* What the adapters may receive while fetch_major_news_2018_to_today runs.
MergeGuardianResponses ==
    TransportFailures \cup {Ok(<<>>), Ok(<<G_OLD>>), Ok(<<G_FULL, G_OLD>>), Ok(<<G_NULL_DATE>>),
                            Ok(<<G_NULL_HEADLINE>>), Ok(<<G_BARE>>)}
MergeRedditResponses ==
    {Failed("http_error"), Ok(<<RP_STARTUP, RP_CAT>>), Ok(<<RP_NULL_TITLE>>)}
MergeNewsApiResponses ==
    {Failed("connection_error"), Ok(<<NA_FULL>>), Ok(<<NA_NULL_DATE>>), Ok(<<NA_NULL_SOURCE>>)}

----------------------------------------------------------------------------
(* The /download handler: its state *)

\* How many GET /download requests the server of the model handles; the Flask
\* development server handles each in a thread of its own.
NumRequests == 2

\* The most articles a fetch of the handler returns in the model.
MaxRows == 2

Requests == 1..NumRequests

\* major_news_2018_to_today.csv: whether it exists, the data rows it holds and
\* the requests whose to_csv has it open for writing.
NoFile == [exists |-> FALSE, rows |-> 0, writers |-> {}]
FileWith(n) == [exists |-> TRUE, rows |-> n, writers |-> {}]

NoReply == [status |-> "none", rows |-> 0, partial |-> FALSE]

ServerIdle ==
    /\ csv_file = NoFile
    /\ rpc = [r \in Requests |-> "idle"]
    /\ articles = [r \in Requests |-> 0]
    /\ response = [r \in Requests |-> NoReply]
    /\ generations = 0

----------------------------------------------------------------------------
(* A client of NewsFetcher: direct adapter calls *)

FetcherNew ==
    /\ api_key \in ApiKeys                   \* __init__, line 17
    /\ entry = "none"
    /\ pc = "start"
    /\ args = NoArgs
    /\ resp = NoResponse
    /\ http_gets = 0
    /\ failed_gets = 0
    /\ ret = <<>>
    /\ exc = "none"
    /\ q = 0
    /\ feed = 0
    /\ all_articles = <<>>
    /\ valid_articles = <<>>
    /\ all_major_articles = <<>>
    /\ unique_articles = <<>>
    /\ result = <<>>

\* The client calls fetch_news_api(query, language, from_date, to_date).
CallNewsApi ==
    /\ pc = "start"
    /\ \E r \in NewsApiResponses, query \in Queries, language \in Languages, d \in Dates :
         LET out == fetch_news_api(api_key, r)
             n == news_api_requests(api_key)
         IN  /\ entry' = "fetch_news_api"
             /\ args' = [NoArgs EXCEPT !.query = query, !.language = language, !.from_date = d]
             /\ resp' = IF n = 1 THEN r ELSE NoResponse
             /\ http_gets' = http_gets + n
             /\ failed_gets' = failed_gets + (IF n = 1 /\ transport_exception(r) # "none" THEN 1 ELSE 0)
             /\ ret' = out.val
             /\ exc' = out.exc
             /\ pc' = IF out.kind = "return" THEN "returned" ELSE "raised"
    /\ UNCHANGED <<api_key, q, feed, all_articles, valid_articles, all_major_articles,
                   unique_articles, result>>
    /\ UNCHANGED serverVars

\* The client calls fetch_guardian(query, from_date, to_date).
CallGuardian ==
    /\ pc = "start"
    /\ \E r \in GuardianResponses, query \in Queries, d \in Dates :
         LET out == fetch_guardian(r)
         IN  /\ entry' = "fetch_guardian"
             /\ args' = [NoArgs EXCEPT !.query = query, !.from_date = d]
             /\ resp' = r
             /\ http_gets' = http_gets + 1
             /\ failed_gets' = failed_gets + (IF transport_exception(r) # "none" THEN 1 ELSE 0)
             /\ ret' = out.val
             /\ exc' = out.exc
             /\ pc' = IF out.kind = "return" THEN "returned" ELSE "raised"
    /\ UNCHANGED <<api_key, q, feed, all_articles, valid_articles, all_major_articles,
                   unique_articles, result>>
    /\ UNCHANGED serverVars

\* The client calls fetch_reddit_news(subreddit).
CallReddit ==
    /\ pc = "start"
    /\ \E r \in RedditResponses, i \in 1..Len(subreddits) :
         LET out == fetch_reddit_news(subreddits[i], r)
         IN  /\ entry' = "fetch_reddit_news"
             /\ args' = [NoArgs EXCEPT !.subreddit = subreddits[i]]
             /\ resp' = r
             /\ http_gets' = http_gets + 1
             /\ failed_gets' = failed_gets + (IF transport_exception(r) # "none" THEN 1 ELSE 0)
             /\ ret' = out.val
             /\ exc' = out.exc
             /\ pc' = IF out.kind = "return" THEN "returned" ELSE "raised"
    /\ UNCHANGED <<api_key, q, feed, all_articles, valid_articles, all_major_articles,
                   unique_articles, result>>
    /\ UNCHANGED serverVars

----------------------------------------------------------------------------
(* fetch_major_news_2018_to_today, step by step *)

\* What a step keeps of the adapter call it made: the list returned is appended
\* to all_articles (all_articles.extend), or the exception propagates out of
\* fetch_all_news and of fetch_major_news_2018_to_today.
extend_or_raise(out, r, next) ==
    /\ resp' = r
    /\ http_gets' = http_gets + 1
    /\ failed_gets' = failed_gets + (IF transport_exception(r) # "none" THEN 1 ELSE 0)
    /\ IF out.kind = "return"
       THEN /\ all_articles' = all_articles \o out.val
            /\ pc' = next
            /\ exc' = exc
       ELSE /\ all_articles' = all_articles
            /\ pc' = "raised"
            /\ exc' = out.exc

\* The client calls fetch_major_news_2018_to_today: lines 202-224 and the first
\* turn of the loop of line 226, up to line 171 of fetch_all_news.
CallMajor ==
    /\ pc = "start"
    /\ entry' = "fetch_major_news_2018_to_today"
    /\ q' = 1
    /\ pc' = "guardian"
    /\ UNCHANGED <<api_key, args, resp, http_gets, failed_gets, ret, exc, feed, all_articles,
                   valid_articles, all_major_articles, unique_articles, result>>
    /\ UNCHANGED serverVars

\* Line 174: all_articles.extend(self.fetch_guardian(query, from_date, to_date)).
MergeGuardian ==
    /\ pc = "guardian"
    /\ \E r \in MergeGuardianResponses : extend_or_raise(fetch_guardian(r), r, "reddit")
    /\ feed' = 1
    /\ UNCHANGED <<api_key, entry, args, ret, q, valid_articles, all_major_articles,
                   unique_articles, result>>
    /\ UNCHANGED serverVars

\* Lines 175-180: all_articles.extend(self.fetch_reddit_news(<subreddit>)).
MergeReddit ==
    /\ pc = "reddit"
    /\ \E r \in MergeRedditResponses :
         extend_or_raise(fetch_reddit_news(subreddits[feed], r), r,
                         IF feed < NumFeeds THEN "reddit" ELSE "newsapi")
    /\ feed' = feed + 1
    /\ UNCHANGED <<api_key, entry, args, ret, q, valid_articles, all_major_articles,
                   unique_articles, result>>
    /\ UNCHANGED serverVars

\* Lines 183-184: fetch_news_api is called only if self.api_key is true.
MergeNewsApi ==
    /\ pc = "newsapi"
    /\ IF truthy(api_key)
       THEN \E r \in MergeNewsApiResponses :
                extend_or_raise(fetch_news_api(api_key, r), r, "filter")
       ELSE /\ pc' = "filter"
            /\ UNCHANGED <<resp, http_gets, failed_gets, all_articles, exc>>
    /\ UNCHANGED <<api_key, entry, args, ret, q, feed, valid_articles, all_major_articles,
                   unique_articles, result>>
    /\ UNCHANGED serverVars

\* Lines 187-192: filter the error records out, sort, return valid_articles.
FilterAndSort ==
    /\ pc = "filter"
    /\ LET out == filter_and_sort(all_articles)
       IN  IF out.kind = "return"
           THEN /\ valid_articles' = out.val
                /\ pc' = "extend"
                /\ exc' = exc
           ELSE /\ valid_articles' = valid_articles
                /\ pc' = "raised"
                /\ exc' = out.exc
    /\ UNCHANGED <<api_key, entry, args, resp, http_gets, failed_gets, ret, q, feed, all_articles,
                   all_major_articles, unique_articles, result>>
    /\ UNCHANGED serverVars

\* Line 229: all_major_articles.extend(articles); then the next query (line 171
\* of its fetch_all_news) or the end of the loop.
ExtendMajor ==
    /\ pc = "extend"
    /\ all_major_articles' = all_major_articles \o valid_articles
    /\ IF q < NumQueries
       THEN /\ q' = q + 1
            /\ all_articles' = <<>>
            /\ pc' = "guardian"
       ELSE /\ q' = q
            /\ all_articles' = all_articles
            /\ pc' = "dedup"
    /\ UNCHANGED <<api_key, entry, args, resp, http_gets, failed_gets, ret, exc, feed, valid_articles,
                   unique_articles, result>>
    /\ UNCHANGED serverVars

\* Lines 232-239: remove duplicates based on title.
RemoveDuplicates ==
    /\ pc = "dedup"
    /\ LET out == remove_duplicates(all_major_articles)
       IN  IF out.kind = "return"
           THEN /\ unique_articles' = out.val
                /\ pc' = "sort"
                /\ exc' = exc
           ELSE /\ unique_articles' = unique_articles
                /\ pc' = "raised"
                /\ exc' = out.exc
    /\ UNCHANGED <<api_key, entry, args, resp, http_gets, failed_gets, ret, q, feed, all_articles,
                   valid_articles, all_major_articles, result>>
    /\ UNCHANGED serverVars

\* Lines 242-243: sort by date, return unique_articles[:50].
SortAndTruncate ==
    /\ pc = "sort"
    /\ LET out == sort_and_truncate(unique_articles)
       IN  IF out.kind = "return"
           THEN /\ result' = out.val
                /\ pc' = "done"
                /\ exc' = exc
           ELSE /\ result' = result
                /\ pc' = "raised"
                /\ exc' = out.exc
    /\ UNCHANGED <<api_key, entry, args, resp, http_gets, failed_gets, ret, q, feed, all_articles,
                   valid_articles, all_major_articles, unique_articles>>
    /\ UNCHANGED serverVars

Init == FetcherNew /\ ServerIdle

Next ==
    \/ CallNewsApi
    \/ CallGuardian
    \/ CallReddit
    \/ CallMajor
    \/ MergeGuardian
    \/ MergeReddit
    \/ MergeNewsApi
    \/ FilterAndSort
    \/ ExtendMajor
    \/ RemoveDuplicates
    \/ SortAndTruncate

Spec == Init /\ [][Next]_vars

----------------------------------------------------------------------------
(* fetch_major_news_2018_to_today from line 231 on, over accumulated articles *)

\* The longest accumulation drawn article by article.
MaxLen == 3

\* Articles as the adapters build them: two that differ only in the case of the
\* title, two with the empty title, one with title None, one with published_at
\* None.
ArticlePool ==
    {guardian_article(G_FULL).art, news_api_article(NA_FULL).art, guardian_article(G_OLD).art,
     guardian_article(G_BARE).art, news_api_article(NA_BARE).art,
     reddit_article(RP_STARTUP, subreddits[1]).art,
     guardian_article(G_NULL_HEADLINE).art, guardian_article(G_NULL_DATE).art}

\* The i-th article of a long accumulation of which the first m titles are
\* distinct and the later ones repeat them in upper case; every run of `period`
\* articles is one query's merge, sorted as fetch_all_news returns it.
numbered_article(i, m, period) ==
    guardian_article(
        [fields |-> "obj",
         headline |-> PyStr(IF i <= m THEN <<"n">> \o two_digits(i)
                            ELSE <<"N">> \o two_digits(i - m)),
         trailText |-> Missing,
         webUrl |-> PyStr(<<"u">> \o two_digits(i)),
         webPublicationDate |->
             CASE (i - 1) % period = 0 -> PyStr(D_2024)
               [] (i - 1) % period = 1 -> PyStr(D_2024)
               [] (i - 1) % period = 2 -> PyStr(D_2023)
               [] OTHER -> Missing]).art

LongAccumulations ==
    {[i \in 1..n |-> numbered_article(i, m, period)] :
        n \in {MaxArticles - 1, MaxArticles, MaxArticles + 1, MaxArticles + 4},
        m \in {MaxArticles - 2, MaxArticles + 1, MaxArticles + 4},
        period \in {1, 4}}

\* all_major_articles when the loop of lines 226-229 has ended.
Accumulations == seqs_up_to(ArticlePool, MaxLen) \cup LongAccumulations

InitOrchestrator ==
    /\ api_key = None
    /\ entry = "fetch_major_news_2018_to_today"
    /\ pc = "dedup"
    /\ args = NoArgs
    /\ resp = NoResponse
    /\ http_gets = 0
    /\ failed_gets = 0
    /\ ret = <<>>
    /\ exc = "none"
    /\ q = NumQueries
    /\ feed = NumFeeds + 1
    /\ all_articles = <<>>
    /\ valid_articles = <<>>
    /\ all_major_articles \in Accumulations
    /\ unique_articles = <<>>
    /\ result = <<>>
    /\ ServerIdle

NextOrchestrator == RemoveDuplicates \/ SortAndTruncate

SpecOrchestrator == InitOrchestrator /\ [][NextOrchestrator]_vars

----------------------------------------------------------------------------
(* save_news_to_csv and download_file *)

\* What fetcher.fetch_major_news_2018_to_today() of line 336 does: it returns a
\* list, here its length, or an exception propagates.
FetchOutcomes == {Return(n) : n \in 0..MaxRows} \cup {Raise("AttributeError")}

\* Whether save_news_to_csv writes the file: `if not articles: return None`,
\* lines 256-257.
save_writes(n) == n # 0

\* open(filename, 'w') inside df.to_csv, line 284: the file is created or
\* truncated.
opened_for_writing(f, r) == [exists |-> TRUE, rows |-> 0, writers |-> f.writers \cup {r}]

\* The rows are written and the file is closed, line 284.
written_and_closed(f, r, n) == [exists |-> TRUE, rows |-> n, writers |-> f.writers \ {r}]

\* send_file(csv_file, as_attachment=True), line 339: FileNotFoundError when the
\* file does not exist, otherwise the file's content as it is now.
send_file(f) ==
    IF ~f.exists THEN [status |-> "500", rows |-> 0, partial |-> FALSE]
    ELSE [status |-> "200", rows |-> f.rows, partial |-> f.writers # {}]

\* Line 334: if not os.path.exists(csv_file).
CheckExists(r) ==
    /\ rpc[r] = "idle"
    /\ IF csv_file.exists
       THEN /\ rpc' = [rpc EXCEPT ![r] = "send"]
            /\ generations' = generations
       ELSE /\ rpc' = [rpc EXCEPT ![r] = "fetch"]
            /\ generations' = generations + 1
    /\ UNCHANGED <<csv_file, articles, response>>
    /\ UNCHANGED fetcherVars

\* Lines 335-336: fetcher = NewsFetcher(); articles = fetcher.fetch_major_...().
Fetch(r) ==
    /\ rpc[r] = "fetch"
    /\ \E out \in FetchOutcomes :
         IF out.kind = "return"
         THEN /\ articles' = [articles EXCEPT ![r] = out.val]
              /\ rpc' = [rpc EXCEPT ![r] = "save"]
              /\ response' = response
         ELSE /\ articles' = articles
              /\ rpc' = [rpc EXCEPT ![r] = "done"]
              /\ response' = [response EXCEPT ![r] = [status |-> "500", rows |-> 0,
                                                      partial |-> FALSE]]
    /\ UNCHANGED <<csv_file, generations>>
    /\ UNCHANGED fetcherVars

\* Line 337, save_news_to_csv up to the open of to_csv: nothing is written for
\* an empty list.
SaveOpen(r) ==
    /\ rpc[r] = "save"
    /\ IF save_writes(articles[r])
       THEN /\ csv_file' = opened_for_writing(csv_file, r)
            /\ rpc' = [rpc EXCEPT ![r] = "writing"]
       ELSE /\ csv_file' = csv_file
            /\ rpc' = [rpc EXCEPT ![r] = "send"]
    /\ UNCHANGED <<articles, response, generations>>
    /\ UNCHANGED fetcherVars

\* Line 284, the rest of to_csv: the rows are written, the file is closed.
SaveWrite(r) ==
    /\ rpc[r] = "writing"
    /\ csv_file' = written_and_closed(csv_file, r, articles[r])
    /\ rpc' = [rpc EXCEPT ![r] = "send"]
    /\ UNCHANGED <<articles, response, generations>>
    /\ UNCHANGED fetcherVars

\* Line 339: return send_file(csv_file, as_attachment=True).
SendFile(r) ==
    /\ rpc[r] = "send"
    /\ response' = [response EXCEPT ![r] = send_file(csv_file)]
    /\ rpc' = [rpc EXCEPT ![r] = "done"]
    /\ UNCHANGED <<csv_file, articles, generations>>
    /\ UNCHANGED fetcherVars

\* The server starts with the file absent (run_server.py on a fresh directory)
\* or present (main() after a successful save).
InitServer ==
    /\ csv_file \in {NoFile} \cup {FileWith(n) : n \in 1..MaxRows}
    /\ rpc = [r \in Requests |-> "idle"]
    /\ articles = [r \in Requests |-> 0]
    /\ response = [r \in Requests |-> NoReply]
    /\ generations = 0
    /\ api_key = None
    /\ entry = "none"
    /\ pc = "start"
    /\ args = NoArgs
    /\ resp = NoResponse
    /\ http_gets = 0
    /\ failed_gets = 0
    /\ ret = <<>>
    /\ exc = "none"
    /\ q = 0
    /\ feed = 0
    /\ all_articles = <<>>
    /\ valid_articles = <<>>
    /\ all_major_articles = <<>>
    /\ unique_articles = <<>>
    /\ result = <<>>

NextServer ==
    \E r \in Requests :
        \/ CheckExists(r)
        \/ Fetch(r)
        \/ SaveOpen(r)
        \/ SaveWrite(r)
        \/ SendFile(r)

SpecServer == InitServer /\ [][NextServer]_vars

----------------------------------------------------------------------------
(* Properties *)

\* 'API key required'
S_API_KEY_REQUIRED == <<"A","P","I"," ","k","e","y"," ","r","e","q","u","i","r","e","d">>

\* The lowercase title of an article whose title is a string.
lowercase_title(a) == lower(a.title.s)

\* How often x occurs in s.
count(s, x) == Cardinality({i \in 1..Len(s) : s[i] = x})

\* C1: when the deduplication of fetch_major_news_2018_to_today has run, no two
\* records of unique_articles have equal lowercase titles, and every record of
\* unique_articles is, field for field, the first record of all_major_articles
\* with its lowercase title; the survivors stand in the order of those first
\* occurrences.
C1_DedupKeepsFirstOccurrence ==
    pc \in {"sort", "done"} =>
        LET s == all_major_articles
            u == unique_articles
            is_first(i) == \A j \in 1..(i - 1) : lowercase_title(s[j]) # lowercase_title(s[i])
            first(a) == CHOOSE i \in 1..Len(s) :
                            lowercase_title(s[i]) = lowercase_title(a) /\ is_first(i)
        IN  /\ \A i, j \in 1..Len(u) : i # j => lowercase_title(u[i]) # lowercase_title(u[j])
            /\ \A k \in 1..Len(u) :
                 \E i \in 1..Len(s) :
                    /\ lowercase_title(s[i]) = lowercase_title(u[k])
                    /\ is_first(i)
                    /\ u[k] = s[i]
            /\ \A k \in 1..(Len(u) - 1) : first(u[k]) < first(u[k + 1])

\* C1's case: two accumulated records whose titles differ only in case, the
\* first of which survived while the second was removed.
C1_Witness ==
    /\ pc = "sort"
    /\ \E i, j \in 1..Len(all_major_articles) :
          /\ i < j
          /\ all_major_articles[i].title # all_major_articles[j].title
          /\ lowercase_title(all_major_articles[i]) = lowercase_title(all_major_articles[j])
          /\ count(unique_articles, all_major_articles[i]) = 1
          /\ count(unique_articles, all_major_articles[j]) = 0

\* C2 as stated: when the deduplication has run, every lowercase title of
\* all_major_articles, the empty title included, is the lowercase title of
\* exactly one record of unique_articles.
C2_EveryTitleKeptOnce ==
    pc \in {"sort", "done"} =>
        \A i \in 1..Len(all_major_articles) :
            Cardinality({k \in 1..Len(unique_articles) :
                            lowercase_title(unique_articles[k])
                                = lowercase_title(all_major_articles[i])}) = 1

\* C2, amended: when the deduplication has run, every non-empty lowercase title
\* of all_major_articles is the lowercase title of exactly one record of
\* unique_articles, no record with the empty title is kept, and so a record
\* with a non-empty title is removed only when an earlier record has the same
\* lowercase title.
C2_EveryNonEmptyTitleKeptOnce ==
    pc \in {"sort", "done"} =>
        LET s == all_major_articles
            u == unique_articles
        IN  /\ \A i \in 1..Len(s) :
                 lowercase_title(s[i]) # <<>> =>
                    Cardinality({k \in 1..Len(u) :
                                    lowercase_title(u[k]) = lowercase_title(s[i])}) = 1
            /\ \A k \in 1..Len(u) : lowercase_title(u[k]) # <<>>
            /\ \A i \in 1..Len(s) :
                 (lowercase_title(s[i]) # <<>> /\ count(u, s[i]) = 0) =>
                    \E j \in 1..(i - 1) : lowercase_title(s[j]) = lowercase_title(s[i])

\* C2's case: the accumulation starts with a record whose title is empty, which
\* no earlier record duplicates, and holds a record with a title.
C2_Witness ==
    /\ pc = "sort"
    /\ Len(all_major_articles) >= 2
    /\ lowercase_title(all_major_articles[1]) = <<>>
    /\ Len(unique_articles) >= 1
    /\ count(unique_articles, all_major_articles[1]) = 0

\* C7: what fetch_major_news_2018_to_today returns is the first
\* min(n, MaxArticles) records of unique_articles in stable descending order of
\* published_at: it has that many records, each a record of unique_articles
\* taken once, non-increasing in published_at, records with equal published_at
\* in their order in unique_articles, and every omitted record sorts behind
\* every returned one.
C7_ReturnsFirstCapSorted ==
    pc = "done" =>
        LET u == unique_articles
            r == result
            n == Len(u)
            key(a) == a.published_at.s
            idx(p) == CHOOSE i \in 1..n : u[i] = r[p]
            returned == {idx(p) : p \in 1..Len(r)}
        IN  /\ Len(r) = IF n < MaxArticles THEN n ELSE MaxArticles
            /\ Len(r) <= MaxArticles
            /\ \A p \in 1..Len(r) : \E i \in 1..n : u[i] = r[p]
            /\ Cardinality(returned) = Len(r)
            /\ \A p \in 1..(Len(r) - 1) : ~str_lt(key(r[p]), key(r[p + 1]))
            /\ \A p, p2 \in 1..Len(r) : (p < p2 /\ key(r[p]) = key(r[p2])) => idx(p) < idx(p2)
            /\ \A i \in (1..n) \ returned :
                 \A p \in 1..Len(r) :
                    /\ ~str_lt(key(r[p]), key(u[i]))
                    /\ key(r[p]) = key(u[i]) => idx(p) < i

\* C7's case: more than MaxArticles deduplicated records, of which one that is
\* older than a later record of unique_articles was returned.
C7_Witness ==
    /\ pc = "done"
    /\ Len(unique_articles) > MaxArticles
    /\ Len(result) = MaxArticles
    /\ \E i, j \in 1..Len(unique_articles) :
          /\ i < j
          /\ str_lt(unique_articles[i].published_at.s, unique_articles[j].published_at.s)
          /\ count(result, unique_articles[j]) = 1
          /\ count(result, unique_articles[i]) = 0

\* C3: when fetch_all_news returns, valid_articles holds exactly the records of
\* the concatenation all_articles that carry no 'error' field, each as often as
\* there, non-increasing in published_at under string comparison, the records
\* with equal published_at in their order in all_articles; with the keys
\* 2024-01-01T00:00:00, 2023-05-05T00:00:00 the 2024 record comes first.
C3_MergeFiltersAndSortsStably ==
    pc = "extend" =>
        LET s == all_articles
            v == valid_articles
            valid(a) == "error" \notin DOMAIN a
            has_key(a, k) == valid(a) /\ a.published_at.s = k
            keys(x) == [i \in 1..Len(x) |-> x[i].published_at.s]
        IN  /\ \A i \in 1..Len(v) : valid(v[i])
            /\ Len(v) = Cardinality({i \in 1..Len(s) : valid(s[i])})
            /\ \A i \in 1..Len(s) : valid(s[i]) => count(v, s[i]) = count(s, s[i])
            /\ \A p \in 1..(Len(v) - 1) : ~str_lt(v[p].published_at.s, v[p + 1].published_at.s)
            /\ \A p \in 1..Len(v) :
                 SelectSeq(v, LAMBDA a : has_key(a, v[p].published_at.s))
                    = SelectSeq(s, LAMBDA a : has_key(a, v[p].published_at.s))
            /\ keys(SelectSeq(s, valid)) = <<D_2024, D_2023>> => keys(v) = <<D_2024, D_2023>>

\* C3's case: the concatenation holds an error record, two different records
\* with the same published_at, and an older record in front of a newer one.
C3_Witness ==
    /\ pc = "extend"
    /\ \E i \in 1..Len(all_articles) : "error" \in DOMAIN all_articles[i]
    /\ \E i, j \in 1..Len(valid_articles) :
          /\ i < j
          /\ valid_articles[i] # valid_articles[j]
          /\ valid_articles[i].published_at = valid_articles[j].published_at
    /\ \E i, j \in 1..Len(all_articles) :
          /\ i < j
          /\ "error" \notin DOMAIN all_articles[i]
          /\ "error" \notin DOMAIN all_articles[j]
          /\ str_lt(all_articles[i].published_at.s, all_articles[j].published_at.s)

\* The text an adapter's error record starts with.
failure_prefix(method) ==
    CASE method = "fetch_news_api" -> MSG_NEWSAPI
      [] method = "fetch_guardian" -> MSG_GUARDIAN
      [] OTHER -> MSG_REDDIT

\* C4: an adapter whose GET failed at the transport level (connection error,
\* non-2xx status, body that is not JSON) returns one record, which has only an
\* 'error' field holding "Failed to fetch from <source>: " and the failure, and
\* raises nothing; and while every GET of fetch_major_news_2018_to_today has
\* failed, all_articles holds one error record per GET of the query and nothing
\* else, no exception has propagated, and fetch_all_news and
\* fetch_major_news_2018_to_today return the empty list.
C4_TransportFailuresBecomeErrorRecords ==
    /\ (/\ entry \in {"fetch_news_api", "fetch_guardian", "fetch_reddit_news"}
        /\ resp.status \in {"connection_error", "http_error", "invalid_json"})
          => /\ pc = "returned"
             /\ exc = "none"
             /\ Len(ret) = 1
             /\ DOMAIN ret[1] = {"error"}
             /\ ret[1].error.t = "str"
             /\ Len(ret[1].error.s) > Len(failure_prefix(entry))
             /\ SubSeq(ret[1].error.s, 1, Len(failure_prefix(entry))) = failure_prefix(entry)
    /\ (/\ entry = "fetch_major_news_2018_to_today"
        /\ http_gets > 0
        /\ failed_gets = http_gets)
          => /\ pc # "raised"
             /\ exc = "none"
             /\ \A i \in 1..Len(all_articles) : DOMAIN all_articles[i] = {"error"}
             /\ pc \in {"filter", "extend"} =>
                    Len(all_articles) = 1 + NumFeeds + news_api_requests(api_key)
             /\ valid_articles = <<>>
             /\ all_major_articles = <<>>
             /\ unique_articles = <<>>
             /\ result = <<>>

\* C4's case: fetch_major_news_2018_to_today has returned after every GET of
\* every query failed, NewsAPI's among them.
C4_Witness ==
    /\ pc = "done"
    /\ entry = "fetch_major_news_2018_to_today"
    /\ failed_gets = http_gets
    /\ http_gets = NumQueries * (NumFeeds + 2)
    /\ result = <<>>

\* C5 as stated: after a successful response whose list of items is there,
\* with any of the items' mapped fields and sub-objects missing or null, no
\* exception propagates out of an adapter, of the merge sort, of the
\* deduplication or of the final sort.
C5_NullFieldsAreNeverFatal == (resp.status = "ok" /\ resp.top = "obj") => pc # "raised"

\* Where the exception of a null field surfaces.
RaisedBy(method, position) == entry = method /\ pc = "raised" /\ position

NullSourceNeverRaisesInAdapter == ~RaisedBy("fetch_news_api", resp.items = <<NA_NULL_SOURCE>>)
NullTitleNeverRaisesInRedditAdapter == ~RaisedBy("fetch_reddit_news", resp.items = <<RP_NULL_TITLE>>)
NullDateNeverRaisesInMergeSort ==
    ~RaisedBy("fetch_major_news_2018_to_today", exc = "TypeError" /\ valid_articles = <<>>
                                                 /\ all_major_articles = <<>> /\ feed > NumFeeds)
NullTitleNeverRaisesInDeduplication ==
    ~RaisedBy("fetch_major_news_2018_to_today", exc = "AttributeError" /\ q = NumQueries
                                                 /\ all_major_articles # <<>>)
NullDateNeverRaisesInFinalSort ==
    ~RaisedBy("fetch_major_news_2018_to_today", exc = "TypeError" /\ unique_articles # <<>>)

\* C8: when fetch_reddit_news returns for a successful feed response, the
\* titles of the articles it returns are, in response order, the titles of
\* exactly those posts whose lowercase title has a word of investment_keywords
\* as a substring; for the titles "Startup raises $10M", "Cat video" only the
\* first is returned.
C8_RedditKeepsKeywordTitles ==
    (/\ entry = "fetch_reddit_news"
     /\ pc = "returned"
     /\ resp.status = "ok"
     /\ resp.top = "obj")
      => LET posts == resp.items
             title(p) == IF p.data = "obj" /\ p.title.t = "str" THEN p.title.s ELSE <<>>
             lowered(t) == [i \in 1..Len(t) |->
                               IF ord[t[i]] \in 65..90 THEN chr(ord[t[i]] + 32) ELSE t[i]]
             matches(p) ==
                 \E k \in 1..Len(investment_keywords) :
                    \E i \in 1..Len(title(p)) :
                       /\ i + Len(investment_keywords[k]) - 1 <= Len(title(p))
                       /\ \A j \in 1..Len(investment_keywords[k]) :
                             lowered(title(p))[i + j - 1] = investment_keywords[k][j]
             kept == SelectSeq(posts, matches)
         IN  /\ Len(ret) = Len(kept)
             /\ \A i \in 1..Len(ret) : ret[i].title = PyStr(title(kept[i]))
             /\ [i \in 1..Len(posts) |-> title(posts[i])] = <<S_STARTUP, S_CAT>>
                   => [i \in 1..Len(ret) |-> ret[i].title.s] = <<S_STARTUP>>

\* C8's case: the feed answered with "Startup raises $10M" and "Cat video" and
\* the adapter returned one article.
C8_Witness ==
    /\ entry = "fetch_reddit_news"
    /\ pc = "returned"
    /\ resp.status = "ok"
    /\ [i \in 1..Len(resp.items) |-> resp.items[i].title] = <<PyStr(S_STARTUP), PyStr(S_CAT)>>
    /\ Len(ret) = 1
    /\ ret[1].title = PyStr(S_STARTUP)

\* C9: a NewsFetcher built with no key or with the empty key answers
\* fetch_news_api, whatever the query, the language and the dates, by returning
\* one record whose error message contains "API key required", without any GET;
\* and inside fetch_major_news_2018_to_today no record of all_articles carries
\* that message, and without a key no GET goes to NewsAPI: the GETs are those
\* of the Guardian and of the feeds.
C9_NoKeySentinel ==
    /\ (entry = "fetch_news_api" /\ api_key \in {None, PyStr(<<>>)})
          => /\ pc = "returned"
             /\ Len(ret) = 1
             /\ "error" \in DOMAIN ret[1]
             /\ contains(ret[1].error.s, S_API_KEY_REQUIRED)
             /\ http_gets = 0
    /\ entry = "fetch_major_news_2018_to_today"
          => /\ \A i \in 1..Len(all_articles) :
                   "error" \in DOMAIN all_articles[i]
                      => ~contains(all_articles[i].error.s, S_API_KEY_REQUIRED)
             /\ api_key \in {None, PyStr(<<>>)} => http_gets <= q * (1 + NumFeeds)

\* C9's case: fetch_news_api called on a NewsFetcher with the empty key, for
\* the German language and a start date.
C9_Witness ==
    /\ entry = "fetch_news_api"
    /\ api_key = PyStr(<<>>)
    /\ args.language = <<"d","e">>
    /\ args.from_date # None
    /\ pc = "returned"
    /\ Len(ret) = 1

\* C6 as stated: whatever the fetch returned, the file exists when a request
\* reaches send_file.
C6_FileExistsAtSendFile == \A r \in Requests : rpc[r] = "send" => csv_file.exists

\* The requests inside the generation of lines 335-337.
generating == {r \in Requests : rpc[r] \in {"fetch", "save", "writing"}}

\* C10 as stated: of the requests handled concurrently at most one runs the
\* generation, no request is at send_file while another has the file open for
\* writing, and no response streams a partially written file.
C10_GenerationIsExclusive ==
    /\ Cardinality(generating) <= 1
    /\ \A r \in Requests : rpc[r] = "send" => csv_file.writers \ {r} = {}
    /\ \A r \in Requests : ~response[r].partial

\* A response that streamed the file while another request was writing it.
NoPartialStream == \A r \in Requests : ~response[r].partial

\* A request that found the file present never fetches and leaves the file as
\* it is when no other request is generating.
PresentFileIsServedAsIs ==
    [][\A r \in Requests :
          (rpc[r] = "idle" /\ csv_file.exists /\ generating = {} /\ rpc'[r] # rpc[r])
             => (rpc'[r] = "send" /\ csv_file' = csv_file /\ generations' = generations)]_vars

====
